---- MODULE Spec2Model ----
(***************************************************************************)
(* A model of the HTTP server of src/main.rs: the frame reader             *)
(* (process_stream), the request parser (HttpRequest::from_str and the     *)
(* regular expressions it uses), the router and the response serializer,   *)
(* and the per-connection thread of main.                                  *)
(*                                                                         *)
(* A byte is a one-character string; CR, LF, HT name the control bytes and *)
(* XFF a byte that is not valid UTF-8.  A Rust String is modelled as the   *)
(* sequence of its UTF-8 bytes.                                            *)
(***************************************************************************)
EXTENDS Integers, Sequences, FiniteSets, TLC

\* Option<T>: None, or Some(x)
None == <<>>

Some(x) == <<x>>

Unwrap(o) == o[1]

CR == "CR"
LF == "LF"
HT == "HT"
SP == " "
XFF == "xFF"

\* char::is_whitespace / the regex class \s, restricted to the bytes of the model
IsSpace(b) == b \in {SP, HT, CR, LF}

Digits == <<"0", "1", "2", "3", "4", "5", "6", "7", "8", "9">>

IsDigit(b) == \E d \in 1..10 : Digits[d] = b

DigitVal(b) == (CHOOSE d \in 1..10 : Digits[d] = b) - 1

SetMax(S) == CHOOSE x \in S : \A y \in S : y <= x

SetMin(S) == CHOOSE x \in S : \A y \in S : x <= y

\* the bytes of s between offsets a and b (a bytes skipped, b - a bytes taken)
Slice(s, a, b) == SubSeq(s, a + 1, b)

\* pat occurs in s starting right after offset i
StartsAt(s, i, pat) ==
    /\ i + Len(pat) <= Len(s)
    /\ \A k \in 1..Len(pat) : s[i + k] = pat[k]

\* str::contains
Contains(s, pat) == \E i \in 0..Len(s) : StartsAt(s, i, pat)

\* every byte between offsets a and b is whitespace
AllSpace(s, a, b) == \A k \in (a + 1)..b : IsSpace(s[k])

\* no byte between offsets a and b is a line feed (what `.*` can cross)
NoLF(s, a, b) == \A k \in (a + 1)..b : s[k] # LF

\* the offset where the whitespace run starting at offset a ends
SpaceRunEnd(s, a) ==
    SetMin({e \in a..Len(s) : e = Len(s) \/ ~IsSpace(s[e + 1])})

\* the offset where the line containing offset a ends (before its LF)
LineEnd(s, a) ==
    SetMin({e \in a..Len(s) : e = Len(s) \/ s[e + 1] = LF})

\* str::trim
Trim(s) ==
    LET keep == {k \in 1..Len(s) : ~IsSpace(s[k])}
    IN  IF keep = {} THEN <<>> ELSE SubSeq(s, SetMin(keep), SetMax(keep))

\* String::from_utf8_lossy: an invalid byte becomes U+FFFD (EF BF BD)
RECURSIVE from_utf8_lossy(_)
from_utf8_lossy(b) ==
    IF b = <<>> THEN <<>>
    ELSE (IF Head(b) = XFF THEN <<"xEF", "xBF", "xBD">> ELSE <<Head(b)>>)
         \o from_utf8_lossy(Tail(b))

(***************************************************************************)
(* The regular expressions (leftmost-first matching, greedy unless `?`).   *)
(***************************************************************************)
HTTP11 == <<"H", "T", "T", "P", "/", "1", ".", "1">>
ECHO_PREFIX == <<"e", "c", "h", "o", "/">>
FILES_PREFIX == <<"f", "i", "l", "e", "s", "/">>
FILES_PATH == <<"f", "i", "l", "e", "s">>
USER_AGENT_PATH == <<"u", "s", "e", "r", "-", "a", "g", "e", "n", "t">>
USER_AGENT_KEY == <<"U", "s", "e", "r", "-", "A", "g", "e", "n", "t">>
GET == <<"G", "E", "T">>
POST == <<"P", "O", "S", "T">>

\* `\s+HTTP/1\.1` matches from offset e
TailMatch(s, e) ==
    \E h \in (e + 1)..Len(s) : AllSpace(s, e, h) /\ StartsAt(s, h, HTTP11)

\* `/.*\s+HTTP/1\.1` matches from offset j
SlashRest(s, j) ==
    /\ j < Len(s)
    /\ s[j + 1] = "/"
    /\ \E e \in (j + 1)..Len(s) : NoLF(s, j + 1, e) /\ TailMatch(s, e)

\* `\s+/.*\s+HTTP/1\.1` matches from offset i
WsSlashRest(s, i) ==
    \E j \in (i + 1)..Len(s) : AllSpace(s, i, j) /\ SlashRest(s, j)

\* METHOD_RE = ^(.*)\s+/.*\s+HTTP/1\.1 : group 1, or None
method_capture(s) ==
    LET ends == {m \in 0..LineEnd(s, 0) : WsSlashRest(s, m)}
    IN  IF ends = {} THEN None ELSE Some(Slice(s, 0, SetMax(ends)))

\* `\s+/(.*)\s+HTTP/1\.1` from offset a: the offsets where group 1 may end
PathEnds(s, a) ==
    LET j == SpaceRunEnd(s, a)
    IN  IF j > a /\ j < Len(s) /\ s[j + 1] = "/"
        THEN {e \in (j + 1)..LineEnd(s, j + 1) : TailMatch(s, e)}
        ELSE {}

\* PATH_RE = .*\s+/(.*)\s+HTTP/1\.1 : group 1 of the leftmost match, or None
extract_path(s) ==
    LET \* (p, a): the match starts at p and its leading .* ends at a
        starts == {p \in 0..Len(s) :
                     \E a \in p..LineEnd(s, p) : PathEnds(s, a) # {}}
    IN  IF starts = {} THEN None
        ELSE LET p == SetMin(starts)
                 a == SetMax({x \in p..LineEnd(s, p) : PathEnds(s, x) # {}})
                 j == SpaceRunEnd(s, a)
             IN  Some(Slice(s, j + 1, SetMax(PathEnds(s, a))))

\* `prefix([^\s\r\n]*)` : group 1 of the leftmost match, or None
CaptureAfter(s, prefix) ==
    LET at == {i \in 0..Len(s) : StartsAt(s, i, prefix)}
    IN  IF at = {} THEN None
        ELSE LET b == SetMin(at) + Len(prefix)
                 e == SetMin({x \in b..Len(s) : x = Len(s) \/ IsSpace(s[x + 1])})
             IN  Some(Slice(s, b, e))

\* ECHO_RE = echo/([^\s\r\n]*)
extract_path_echo(path) == CaptureAfter(path, ECHO_PREFIX)

\* FILE_NAME_RE = files/([^\s\r\n]*)
extract_path_filename(path) == CaptureAfter(path, FILES_PREFIX)

(***************************************************************************)
(* Header values: value.parse::<i32>() and TypedHeader.                    *)
(***************************************************************************)
I32_MAX == 2147483647

\* the checked accumulation of i32::from_str over the digits ds, sign sgn
RECURSIVE AccumulateI32(_, _, _)
AccumulateI32(ds, acc, sgn) ==
    IF ds = <<>> THEN Some(acc)
    ELSE IF ~IsDigit(Head(ds)) THEN None
    ELSE LET d == DigitVal(Head(ds))
             q == I32_MAX \div 10
             r == I32_MAX % 10
             fits == IF sgn = 1
                     THEN acc < q \/ (acc = q /\ d <= r)
                     ELSE acc > -q \/ (acc = -q /\ d <= r + 1)
         IN  IF fits THEN AccumulateI32(Tail(ds), acc * 10 + sgn * d, sgn)
             ELSE None

\* the longest prefix of v made of digits
RECURSIVE DigitPrefix(_)
DigitPrefix(v) ==
    IF v = <<>> \/ ~IsDigit(Head(v)) THEN <<>>
    ELSE <<Head(v)>> \o DigitPrefix(Tail(v))

\* parse_i32 reading the leading digits and ignoring what follows them
parse_i32_prefix(v) ==
    IF v = <<>> THEN None
    ELSE IF Head(v) \in {"+", "-"}
    THEN IF DigitPrefix(Tail(v)) = <<>> THEN None
         ELSE AccumulateI32(DigitPrefix(Tail(v)), 0,
                            IF Head(v) = "-" THEN -1 ELSE 1)
    ELSE IF DigitPrefix(v) = <<>> THEN None
    ELSE AccumulateI32(DigitPrefix(v), 0, 1)

\* str::parse::<i32>: the integer, or None for Err
parse_i32(v) ==
    IF v = <<>> THEN None
    ELSE IF Head(v) \in {"+", "-"}
    THEN IF Len(v) = 1 THEN None
         ELSE AccumulateI32(Tail(v), 0, IF Head(v) = "-" THEN -1 ELSE 1)
    ELSE AccumulateI32(v, 0, 1)

Number(n) == [tag |-> "Number", num |-> n]

Str(v) == [tag |-> "Str", str |-> v]

\* lines 164-168: the TypedHeader a trimmed value is stored as
TypedHeader(value) ==
    IF parse_i32(value) # None THEN Number(Unwrap(parse_i32(value)))
    ELSE Str(value)

\* HEADERS_RE = (.*?):\s*(.*)\s* : the first match at or after offset pos,
\* as [key, value, end], or None
headers_match(s, pos) ==
    LET colons == {k \in (pos + 1)..Len(s) : s[k] = ":"}
    IN  IF colons = {} THEN None
        ELSE LET c  == SetMin(colons)
                 lf == {k \in (pos + 1)..(c - 1) : s[k] = LF}
                 p  == IF lf = {} THEN pos ELSE SetMax(lf)
                 v0 == SpaceRunEnd(s, c)
                 v1 == LineEnd(s, v0)
             IN  Some([key |-> Slice(s, p, c - 1), value |-> Slice(s, v0, v1),
                       end |-> SpaceRunEnd(s, v1)])

\* lines 157-171: the loop over HEADERS_RE.captures_iter, a later insert of a
\* key replacing an earlier one
RECURSIVE collect_headers(_, _, _)
collect_headers(s, pos, headers) ==
    LET m == headers_match(s, pos)
    IN  IF m = None THEN headers
        ELSE collect_headers(s, Unwrap(m).end,
                 (Trim(Unwrap(m).key) :> TypedHeader(Trim(Unwrap(m).value)))
                     @@ headers)

EmptyMap == [k \in {} |-> Str(<<>>)]

\* HttpRequest::from_str: the request, or None
from_str(s) ==
    LET method == method_capture(s)
        path   == extract_path(s)
    IN  IF method = None \/ path = None THEN None
        ELSE Some([method |-> Unwrap(method), path |-> Unwrap(path),
                   headers |-> collect_headers(s, 0, EmptyMap), body |-> None])

\* HttpRequest::with_body
with_body(req, body) == [req EXCEPT !.body = Some(body)]

(***************************************************************************)
(* HttpResponse and its serialization.                                     *)
(***************************************************************************)
CRLF == <<CR, LF>>
BOUNDARY == <<CR, LF, CR, LF>>

Ok(body) == [tag |-> "Ok", body |-> body]

OkStream(body) == [tag |-> "OkStream", body |-> body]

NotFound == [tag |-> "NotFound", body |-> None]

Created == [tag |-> "Created", body |-> None]

\* ToDecimal with the digits in the order they are computed, lowest first
RECURSIVE ToDecimal_reversed(_)
ToDecimal_reversed(n) ==
    IF n < 10 THEN <<Digits[n + 1]>>
    ELSE <<Digits[(n % 10) + 1]>> \o ToDecimal_reversed(n \div 10)

\* format!("{}", n) of a usize
RECURSIVE ToDecimal(_)
ToDecimal(n) ==
    IF n < 10 THEN <<Digits[n + 1]>>
    ELSE ToDecimal(n \div 10) \o <<Digits[(n % 10) + 1]>>

STATUS_200 == HTTP11 \o <<SP, "2", "0", "0", SP, "O", "K">>
STATUS_404 ==
    HTTP11 \o <<SP, "4", "0", "4", SP, "N", "O", "T", SP, "F", "O", "U", "N", "D">>
STATUS_201 == HTTP11 \o <<SP, "2", "0", "1", SP, "C", "R", "E", "A", "T", "E", "D">>
CONTENT_TYPE == <<"C", "o", "n", "t", "e", "n", "t", "-", "T", "y", "p", "e", ":", SP>>
CONTENT_LENGTH ==
    <<"C", "o", "n", "t", "e", "n", "t", "-", "L", "e", "n", "g", "t", "h", ":", SP>>
TEXT_PLAIN == <<"t", "e", "x", "t", "/", "p", "l", "a", "i", "n">>
OCTET_STREAM ==
    <<"a", "p", "p", "l", "i", "c", "a", "t", "i", "o", "n", "/",
      "o", "c", "t", "e", "t", "-", "s", "t", "r", "e", "a", "m">>

\* the header block of a 200 response with a body of n bytes
OkHead(ctype, n) ==
    STATUS_200 \o CRLF \o CONTENT_TYPE \o ctype \o CRLF
        \o CONTENT_LENGTH \o ToDecimal(n) \o CRLF \o CRLF

\* IntoResponse::into_response
into_response(r) ==
    CASE r.tag = "Ok" ->
             IF r.body # None
             THEN OkHead(TEXT_PLAIN, Len(Unwrap(r.body))) \o Unwrap(r.body)
             ELSE STATUS_200 \o CRLF \o CRLF
      [] r.tag = "NotFound" -> STATUS_404 \o CRLF \o CRLF
      [] r.tag = "Created" -> STATUS_201 \o CRLF \o CRLF
      [] OTHER -> <<>>

\* IntoStreamResponse::into_stream_response
into_stream_response(r) ==
    IF r.tag = "OkStream" /\ r.body # None
    THEN OkHead(OCTET_STREAM, Len(Unwrap(r.body))) \o Unwrap(r.body)
    ELSE into_response(r)

\* lines 320-335: the bytes main writes for the response it holds
response_bytes(r) ==
    CASE r.tag = "OkStream" -> into_stream_response(r)
      [] r.tag \in {"Ok", "Created"} -> into_response(r)
      [] OTHER -> into_response(NotFound)

(***************************************************************************)
(* The command line and the file store.                                    *)
(***************************************************************************)
DIR_PATH == "--directory"

\* get_arg: the argument that follows the first occurrence of a
get_arg(argv, a) ==
    LET at == {i \in 1..Len(argv) : argv[i] = a}
    IN  IF at = {} \/ SetMin(at) = Len(argv) THEN None
        ELSE Some(argv[SetMin(at) + 1])

Absent == [kind |-> "absent", data |-> <<>>]

Directory == [kind |-> "dir", data |-> <<>>]

RegularFile(data) == [kind |-> "file", data |-> data]

\* what <directory>/<name> is in the store fs; the empty name is the
\* directory itself
FileAt(fs, name) ==
    IF name = <<>> THEN Directory
    ELSE IF name \in DOMAIN fs THEN fs[name] ELSE Absent

\* file_contents: Some(contents), or None for Err; ioerr is a failing
\* metadata, open or read
file_contents(fs, name, ioerr) ==
    IF ioerr \/ FileAt(fs, name).kind # "file" THEN None
    ELSE Some(FileAt(fs, name).data)

\* the first offset where \r\n\r\n starts in buffer (windows(4).position)
FindBoundary(buffer) ==
    LET at == {i \in 0..Len(buffer) : StartsAt(buffer, i, BOUNDARY)}
    IN  IF at = {} THEN None ELSE Some(SetMin(at))

(***************************************************************************)
(* The requests the peers send.                                            *)
(***************************************************************************)
RequestLine(method, target, version) ==
    method \o <<SP>> \o target \o <<SP>> \o version \o CRLF

HeaderLine(key, value) == key \o <<":", SP>> \o value \o CRLF

\* a request: its header block, the blank line, and its body
Request(head, body) == head \o CRLF \o body

HTTP10 == <<"H", "T", "T", "P", "/", "1", ".", "0">>
T_ROOT == <<"/">>
T_ECHO == <<"/">> \o ECHO_PREFIX
T_FILES == <<"/">> \o FILES_PREFIX
T_USER_AGENT == <<"/">> \o USER_AGENT_PATH
CL_KEY == <<"C", "o", "n", "t", "e", "n", "t", "-", "L", "e", "n", "g", "t", "h">>

GetRequests ==
    { Request(RequestLine(GET, T_ROOT, HTTP11), <<>>),
      Request(RequestLine(GET, T_ECHO \o <<"a", "b">>, HTTP11), <<>>),
      Request(RequestLine(GET, T_ECHO, HTTP11), <<>>),
      Request(RequestLine(GET, T_ECHO \o <<"a", SP, "b">>, HTTP11), <<>>),
      Request(RequestLine(GET, T_ECHO \o <<XFF>>, HTTP11), <<>>),
      Request(RequestLine(GET, T_FILES \o ECHO_PREFIX \o <<"f">>, HTTP11), <<>>),
      Request(RequestLine(GET, T_ECHO \o FILES_PREFIX \o <<"f">>, HTTP11), <<>>),
      Request(RequestLine(GET, <<"/", "n">>, HTTP11), <<>>),
      Request(RequestLine(GET, <<"/", "x">> \o FILES_PATH, HTTP11), <<>>),
      Request(RequestLine(GET, T_FILES, HTTP11), <<>>),
      Request(RequestLine(GET, T_FILES \o <<"f">>, HTTP11), <<>>),
      Request(RequestLine(GET, T_FILES \o <<"g">>, HTTP11), <<>>) }

UserAgentRequests ==
    { Request(RequestLine(GET, T_USER_AGENT, HTTP11), <<>>),
      Request(RequestLine(GET, T_USER_AGENT, HTTP11)
                  \o HeaderLine(USER_AGENT_KEY, <<"t", "/", "1">>), <<>>),
      Request(RequestLine(GET, T_USER_AGENT, HTTP11)
                  \o HeaderLine(USER_AGENT_KEY, <<"1", "2">>), <<>>),
      Request(RequestLine(GET, T_USER_AGENT, HTTP11)
                  \o HeaderLine(USER_AGENT_PATH, <<"t">>), <<>>) }

PostRequests ==
    { Request(RequestLine(POST, T_FILES \o <<"f">>, HTTP11)
                  \o HeaderLine(CL_KEY, <<"2">>), <<"h", "i">>),
      Request(RequestLine(POST, T_FILES \o <<"f">>, HTTP11), <<>>),
      Request(RequestLine(POST, T_FILES, HTTP11), <<"h">>),
      Request(RequestLine(POST, <<"/", "x">>, HTTP11), <<"h">>),
      Request(RequestLine(<<"P", "U", "T">>, T_FILES \o <<"f">>, HTTP11), <<"h">>) }

MalformedRequests ==
    { Request(RequestLine(GET, T_ROOT, HTTP10), <<>>),
      Request(<<"x">> \o CRLF, <<>>),
      Request(RequestLine(POST, <<"f">>, HTTP11), <<"h">>) }

\* a request line followed by a line that METHOD_RE can also end in
TwoLineRequests ==
    { Request(RequestLine(GET, <<"/", "x">>, HTTP11)
                  \o HeaderLine(<<"/", "y">>, HTTP11), <<>>) }

Catalog ==
    GetRequests \cup UserAgentRequests \cup PostRequests
        \cup MalformedRequests \cup TwoLineRequests

\* what the peer means to send after the first \r\n\r\n of its request
FullBody(req) == Slice(req, Unwrap(FindBoundary(req)) + 4, Len(req))

ArgLists ==
    { <<"server">>, <<"server", DIR_PATH, "dir">> }

InitialStores ==
    { EmptyMap, <<"f">> :> RegularFile(<<"a", "b">>) }

(***************************************************************************)
(* The state.                                                              *)
(***************************************************************************)
VARIABLES
    argv,       \* std::env::args()
    files,      \* the regular files of the directory: name -> file
    conn,       \* the connection threads: slot -> thread and socket state
    accepted,   \* how many times listener.incoming() has yielded
    maxLive,    \* how many connection threads the scenario runs at once
    arg,        \* the input of a function applied on its own
    ret         \* its result

vars == <<argv, files, conn, accepted, maxLive, arg, ret>>

MaxThreads == 2
MaxAccepts == 2
CutWindow == 2
TEMP_BUF_LEN == 1024

Conns == 1..MaxThreads

IdleConn ==
    [ pc        |-> "idle",
      req       |-> <<>>,       \* the bytes the peer means to send
      sent      |-> 0,          \* how many of them it has sent
      peer      |-> "open",     \* "open", or "closed" once the peer is gone
      buffer    |-> <<>>,       \* process_stream's buffer
      body_pos  |-> 0,
      request   |-> None,       \* the HttpRequest, once parsed
      response  |-> NotFound,
      out       |-> <<>>,       \* the bytes written to the stream
      flushed   |-> FALSE,
      exit      |-> "",         \* how the thread ended
      fileRead  |-> FALSE,      \* whether file_contents ran
      fileWrite |-> FALSE,      \* whether write_file ran
      events    |-> <<>> ]      \* the steps the thread has taken

Live(c) == conn[c].pc \notin {"idle", "closed"}

NumLive == Cardinality({c \in Conns : Live(c)})

\* the thread of c ends: its locals are dropped and its stream is closed
Exit(c, how, rec) ==
    conn' = [conn EXCEPT ![c] =
                [rec EXCEPT !.pc = "closed", !.exit = how,
                            !.events = Append(rec.events, "Closed")]]

Step(c, rec) == conn' = [conn EXCEPT ![c] = rec]

(***************************************************************************)
(* The listener (lines 251-254, 339-341).                                  *)
(***************************************************************************)
\* FreeSlot with the listener brought down by the panic of a connection thread
FreeSlot_until_panic(c) ==
    /\ ~Live(c) /\ \A d \in Conns : d < c => Live(d)
    /\ \A d \in Conns : conn[d].exit \notin {"panic_write", "panic_write_file"}

\* the slot the next spawned thread takes
FreeSlot(c) == ~Live(c) /\ \A d \in Conns : d < c => Live(d)

\* listener.incoming() yields a stream for a peer that means to send r
Accept(c, r) ==
    /\ accepted < MaxAccepts
    /\ NumLive < maxLive
    /\ FreeSlot(c)
    /\ Step(c, [IdleConn EXCEPT !.pc = "reading", !.req = r,
                                !.events = <<"Accepted", "Reading">>])
    /\ accepted' = accepted + 1
    /\ UNCHANGED <<argv, files, maxLive, arg, ret>>

\* listener.incoming() yields Err(e): the thread logs it and ends
AcceptError(c) ==
    /\ accepted < MaxAccepts
    /\ NumLive < maxLive
    /\ FreeSlot(c)
    /\ Step(c, [IdleConn EXCEPT !.pc = "closed", !.exit = "accept_error",
                                !.events = <<"AcceptError">>])
    /\ accepted' = accepted + 1
    /\ UNCHANGED <<argv, files, maxLive, arg, ret>>

(***************************************************************************)
(* The peer.                                                               *)
(***************************************************************************)
\* the bytes sent and not yet read
Inflight(rec) == Slice(rec.req, Len(rec.buffer), rec.sent)

\* whether the peer may end a segment of req at offset o: within CutWindow
\* bytes of the start, and from CutWindow bytes before the \r\n\r\n on
SendPoint(req, o) ==
    o <= CutWindow \/ o >= Unwrap(FindBoundary(req)) - CutWindow

\* the peer sends the next k bytes of its request
PeerSend(c, k) ==
    /\ conn[c].pc = "reading"
    /\ conn[c].peer = "open"
    /\ k \in 1..(Len(conn[c].req) - conn[c].sent)
    /\ SendPoint(conn[c].req, conn[c].sent + k)
    /\ Step(c, [conn[c] EXCEPT !.sent = @ + k])
    /\ UNCHANGED <<argv, files, accepted, maxLive, arg, ret>>

PeerClose(c) ==
    /\ Live(c)
    /\ conn[c].peer = "open"
    /\ Step(c, [conn[c] EXCEPT !.peer = "closed"])
    /\ UNCHANGED <<argv, files, accepted, maxLive, arg, ret>>

(***************************************************************************)
(* process_stream (lines 227-247).                                         *)
(***************************************************************************)
\* process_stream_chunk with the boundary looked for in the new chunk only
process_stream_chunk_tail_only(rec, chunk) ==
    LET buffer == rec.buffer \o chunk
        pos    == FindBoundary(chunk)
    IN  IF pos # None
        THEN [rec EXCEPT !.buffer = buffer,
                         !.body_pos = Len(rec.buffer) + Unwrap(pos) + 4,
                         !.pc = "parse"]
        ELSE [rec EXCEPT !.buffer = buffer]

\* one turn of the loop for a read that returned chunk (lines 239-244)
process_stream_chunk(rec, chunk) ==
    LET buffer == rec.buffer \o chunk
        pos    == FindBoundary(buffer)
    IN  IF pos # None
        THEN [rec EXCEPT !.buffer = buffer, !.body_pos = Unwrap(pos) + 4,
                         !.pc = "parse"]
        ELSE [rec EXCEPT !.buffer = buffer]

Min(a, b) == IF a <= b THEN a ELSE b

\* stream.read returns the bytes that have arrived, as many as temp_buf holds
Read(c) ==
    /\ conn[c].pc = "reading"
    /\ Inflight(conn[c]) # <<>>
    /\ Step(c, process_stream_chunk(conn[c],
                   Slice(Inflight(conn[c]), 0,
                         Min(TEMP_BUF_LEN, Len(Inflight(conn[c]))))))
    /\ UNCHANGED <<argv, files, accepted, maxLive, arg, ret>>

\* process_stream_err with the end of the stream taken for the end of the
\* header block
process_stream_err_break(c, how) ==
    Step(c, [conn[c] EXCEPT !.pc = "parse", !.body_pos = Len(conn[c].buffer)])

\* what main does with process_stream's Err (line 258): nothing
process_stream_err(c, how) == Exit(c, how, conn[c])

\* ReadEof with the read given up while the peer is still there, as a read
\* timeout would do
ReadEof_timeout(c) ==
    /\ conn[c].pc = "reading"
    /\ Inflight(conn[c]) = <<>>
    /\ process_stream_err(c, "UnexpectedEof")
    /\ UNCHANGED <<argv, files, accepted, maxLive, arg, ret>>

\* stream.read returns 0: Err(UnexpectedEof) (lines 233-238)
ReadEof(c) ==
    /\ conn[c].pc = "reading"
    /\ conn[c].peer = "closed"
    /\ Inflight(conn[c]) = <<>>
    /\ process_stream_err(c, "UnexpectedEof")
    /\ UNCHANGED <<argv, files, accepted, maxLive, arg, ret>>

\* stream.read returns Err(e), as after a reset by the peer (line 232)
ReadError(c) ==
    /\ conn[c].pc = "reading"
    /\ conn[c].peer = "closed"
    /\ process_stream_err(c, "ReadError")
    /\ UNCHANGED <<argv, files, accepted, maxLive, arg, ret>>

(***************************************************************************)
(* main, lines 259-319: parsing and routing.                               *)
(***************************************************************************)
\* parse_request with the thread ending at the unsupported-request log
parse_request_silent(rec) ==
    LET req_str == from_utf8_lossy(Slice(rec.buffer, 0, rec.body_pos))
        parsed  == from_str(req_str)
        body    == Slice(rec.buffer, rec.body_pos, Len(rec.buffer))
    IN  IF parsed # None
        THEN [rec EXCEPT !.request = Some(with_body(Unwrap(parsed), body)),
                         !.response = NotFound,
                         !.pc = "route",
                         !.events = Append(@, "Parsed")]
        ELSE [rec EXCEPT !.response = NotFound,
                         !.pc = "end",
                         !.events = Append(@, "ParseFailed")]

\* lines 259-263 and 316-318
parse_request(rec) ==
    LET req_str == from_utf8_lossy(Slice(rec.buffer, 0, rec.body_pos))
        parsed  == from_str(req_str)
        body    == Slice(rec.buffer, rec.body_pos, Len(rec.buffer))
    IN  IF parsed # None
        THEN [rec EXCEPT !.request = Some(with_body(Unwrap(parsed), body)),
                         !.response = NotFound,
                         !.pc = "route",
                         !.events = Append(@, "Parsed")]
        ELSE [rec EXCEPT !.response = NotFound,
                         !.pc = "write",
                         !.events = Append(@, "ParseFailed")]

Parse(c) ==
    /\ conn[c].pc = "parse"
    /\ Step(c, parse_request(conn[c]))
    /\ UNCHANGED <<argv, files, accepted, maxLive, arg, ret>>

Respond(r) == [kind |-> "respond", response |-> r, name |-> <<>>, data |-> <<>>]

ReadPlan(name) ==
    [kind |-> "read", response |-> NotFound, name |-> name, data |-> <<>>]

WritePlan(name, data) ==
    [kind |-> "write", response |-> NotFound, name |-> name, data |-> data]

\* user_agent_route with the tag of the header not looked at
user_agent_route_any_tag(headers) ==
    IF USER_AGENT_KEY \in DOMAIN headers
    THEN Respond(Ok(Some(IF headers[USER_AGENT_KEY].tag = "Str"
                         THEN headers[USER_AGENT_KEY].str
                         ELSE ToDecimal(headers[USER_AGENT_KEY].num))))
    ELSE Respond(NotFound)

\* lines 279-286
user_agent_route(headers) ==
    IF USER_AGENT_KEY \in DOMAIN headers /\ headers[USER_AGENT_KEY].tag = "Str"
    THEN Respond(Ok(Some(headers[USER_AGENT_KEY].str)))
    ELSE Respond(NotFound)

\* get_file_route with the current directory taken when no directory is given
get_file_route_default_dir(path, args) ==
    IF extract_path_filename(path) # None
    THEN ReadPlan(Unwrap(extract_path_filename(path)))
    ELSE Respond(NotFound)

\* lines 287-298, up to the call of file_contents
get_file_route(path, args) ==
    IF get_arg(args, DIR_PATH) # None /\ extract_path_filename(path) # None
    THEN ReadPlan(Unwrap(extract_path_filename(path)))
    ELSE Respond(NotFound)

\* lines 301-313, up to the call of write_file
post_file_route(path, body, args) ==
    IF /\ get_arg(args, DIR_PATH) # None
       /\ extract_path_filename(path) # None
       /\ body # None
    THEN WritePlan(Unwrap(extract_path_filename(path)), Unwrap(body))
    ELSE Respond(NotFound)

\* route with the files check of GET moved before the echo check
route_files_first(req, args) ==
    IF req.method = GET
    THEN IF req.path = <<>> THEN Respond(Ok(None))
         ELSE IF Contains(req.path, FILES_PATH)
         THEN get_file_route(req.path, args)
         ELSE IF extract_path_echo(req.path) # None
         THEN Respond(Ok(Some(Unwrap(extract_path_echo(req.path)))))
         ELSE IF req.path = USER_AGENT_PATH THEN user_agent_route(req.headers)
         ELSE Respond(NotFound)
    ELSE IF req.method = POST
    THEN IF Contains(req.path, FILES_PATH)
         THEN post_file_route(req.path, req.body, args)
         ELSE Respond(NotFound)
    ELSE Respond(NotFound)

\* route with every method but GET handled as POST
route_other_as_post(req, args) ==
    IF req.method = GET
    THEN IF req.path = <<>> THEN Respond(Ok(None))
         ELSE IF extract_path_echo(req.path) # None
         THEN Respond(Ok(Some(Unwrap(extract_path_echo(req.path)))))
         ELSE IF req.path = USER_AGENT_PATH THEN user_agent_route(req.headers)
         ELSE IF Contains(req.path, FILES_PATH)
         THEN get_file_route(req.path, args)
         ELSE Respond(NotFound)
    ELSE IF Contains(req.path, FILES_PATH)
    THEN post_file_route(req.path, req.body, args)
    ELSE Respond(NotFound)

\* route with every method but POST handled as GET
route_method_fallthrough(req, args) ==
    IF req.method # POST
    THEN IF req.path = <<>> THEN Respond(Ok(None))
         ELSE IF extract_path_echo(req.path) # None
         THEN Respond(Ok(Some(Unwrap(extract_path_echo(req.path)))))
         ELSE IF req.path = USER_AGENT_PATH THEN user_agent_route(req.headers)
         ELSE IF Contains(req.path, FILES_PATH)
         THEN get_file_route(req.path, args)
         ELSE Respond(NotFound)
    ELSE IF Contains(req.path, FILES_PATH)
    THEN post_file_route(req.path, req.body, args)
    ELSE Respond(NotFound)

\* lines 272-314: the response of a request, or the file access that decides it
route(req, args) ==
    IF req.method = GET
    THEN IF req.path = <<>> THEN Respond(Ok(None))
         ELSE IF extract_path_echo(req.path) # None
         THEN Respond(Ok(Some(Unwrap(extract_path_echo(req.path)))))
         ELSE IF req.path = USER_AGENT_PATH THEN user_agent_route(req.headers)
         ELSE IF Contains(req.path, FILES_PATH)
         THEN get_file_route(req.path, args)
         ELSE Respond(NotFound)
    ELSE IF req.method = POST
    THEN IF Contains(req.path, FILES_PATH)
         THEN post_file_route(req.path, req.body, args)
         ELSE Respond(NotFound)
    ELSE Respond(NotFound)

Plan(c) == route(Unwrap(conn[c].request), argv)

Chosen(rec, r) ==
    [rec EXCEPT !.response = r, !.pc = "write",
                !.events = @ \o <<"Routed", "ResponseChosen">>]

\* a route that touches no file
RouteRespond(c) ==
    /\ conn[c].pc = "route"
    /\ Plan(c).kind = "respond"
    /\ Step(c, Chosen(conn[c], Plan(c).response))
    /\ UNCHANGED <<argv, files, accepted, maxLive, arg, ret>>

\* lines 294-296: the response after file_contents returned result
get_file_response(result) ==
    IF result # None THEN OkStream(Some(Unwrap(result))) ELSE NotFound

\* RouteGetFile with the file locked while a POST is writing it
RouteGetFile_locked(c, ioerr) ==
    /\ conn[c].pc = "route"
    /\ Plan(c).kind = "read"
    /\ \A d \in Conns :
           conn[d].pc = "fs_write" => Plan(d).name # Plan(c).name
    /\ Step(c, Chosen([conn[c] EXCEPT !.fileRead = TRUE],
                      get_file_response(file_contents(files, Plan(c).name, ioerr))))
    /\ UNCHANGED <<argv, files, accepted, maxLive, arg, ret>>

\* GET of a file: file_contents and the response (lines 292-296)
RouteGetFile(c, ioerr) ==
    /\ conn[c].pc = "route"
    /\ Plan(c).kind = "read"
    /\ Step(c, Chosen([conn[c] EXCEPT !.fileRead = TRUE],
                      get_file_response(file_contents(files, Plan(c).name, ioerr))))
    /\ UNCHANGED <<argv, files, accepted, maxLive, arg, ret>>

\* RoutePostFile with the file opened for writing and not truncated
RoutePostFile_no_truncate(c, created) ==
    /\ conn[c].pc = "route"
    /\ Plan(c).kind = "write"
    /\ IF created /\ FileAt(files, Plan(c).name).kind # "dir"
       THEN /\ files' = (Plan(c).name :>
                            RegularFile(FileAt(files, Plan(c).name).data)) @@ files
            /\ Step(c, [conn[c] EXCEPT !.pc = "fs_write", !.fileWrite = TRUE,
                                       !.events = Append(@, "Routed")])
       ELSE /\ files' = files
            /\ Step(c, Chosen([conn[c] EXCEPT !.fileWrite = TRUE], NotFound))
    /\ UNCHANGED <<argv, accepted, maxLive, arg, ret>>

\* POST of a file: File::create of write_file (line 221); created tells
\* whether the system let the file be created or truncated
RoutePostFile(c, created) ==
    /\ conn[c].pc = "route"
    /\ Plan(c).kind = "write"
    /\ IF created /\ FileAt(files, Plan(c).name).kind # "dir"
       THEN /\ files' = (Plan(c).name :> RegularFile(<<>>)) @@ files
            /\ Step(c, [conn[c] EXCEPT !.pc = "fs_write", !.fileWrite = TRUE,
                                       !.events = Append(@, "Routed")])
       ELSE /\ files' = files
            /\ Step(c, Chosen([conn[c] EXCEPT !.fileWrite = TRUE], NotFound))
    /\ UNCHANGED <<argv, accepted, maxLive, arg, ret>>

\* the content of a file after written is written at offset 0 through a
\* handle that was just opened: the bytes beyond it stay as they are
Overwrite(old, written) ==
    written \o Slice(old, Min(Len(written), Len(old)), Len(old))

\* write_all(data).unwrap() and flush().unwrap() of write_file (lines
\* 222-224), n the bytes that reach the file: all of them, or fewer when a
\* write fails, and then unwrap panics
FsWrite(c, n) ==
    /\ conn[c].pc = "fs_write"
    /\ n \in 0..Len(Plan(c).data)
    /\ files' = (Plan(c).name :>
                     RegularFile(Overwrite(FileAt(files, Plan(c).name).data,
                                           Slice(Plan(c).data, 0, n)))) @@ files
    /\ IF n = Len(Plan(c).data)
       THEN Step(c, [conn[c] EXCEPT !.response = Created, !.pc = "write",
                                    !.events = Append(@, "ResponseChosen")])
       ELSE Exit(c, "panic_write_file", conn[c])
    /\ UNCHANGED <<argv, accepted, maxLive, arg, ret>>

(***************************************************************************)
(* main, lines 320-337: the response is written.                           *)
(***************************************************************************)
\* stream.write_all(..).unwrap(): sent tells whether the write succeeded; it
\* can fail once the peer is gone, and then unwrap panics
Write(c, sent) ==
    /\ conn[c].pc = "write"
    /\ sent \/ conn[c].peer = "closed"
    /\ IF sent
       THEN Step(c, [conn[c] EXCEPT !.out = @ \o response_bytes(conn[c].response),
                                    !.pc = "flush",
                                    !.events = Append(@, "Written")])
       ELSE Exit(c, "panic_write", conn[c])
    /\ UNCHANGED <<argv, files, accepted, maxLive, arg, ret>>

\* Flush with the flush left out
Flush_skipped(c) ==
    /\ conn[c].pc = "flush"
    /\ Step(c, [conn[c] EXCEPT !.pc = "end"])
    /\ UNCHANGED <<argv, files, accepted, maxLive, arg, ret>>

\* stream.flush().unwrap() (line 336); flushing a TcpStream does nothing
Flush(c) ==
    /\ conn[c].pc = "flush"
    /\ Step(c, [conn[c] EXCEPT !.flushed = TRUE, !.pc = "end",
                               !.events = Append(@, "Flushed")])
    /\ UNCHANGED <<argv, files, accepted, maxLive, arg, ret>>

\* the closure returns (line 343): the stream is dropped
Close(c) ==
    /\ conn[c].pc = "end"
    /\ Exit(c, "ok", conn[c])
    /\ UNCHANGED <<argv, files, accepted, maxLive, arg, ret>>

(***************************************************************************)
(* The server, one connection at a time.                                   *)
(***************************************************************************)
NoCall == [fn |-> "", text |-> <<>>, value |-> <<>>]

NoResult == [done |-> FALSE, out |-> <<>>, request |-> None]

Init ==
    /\ argv \in ArgLists
    /\ files \in InitialStores
    /\ conn = [c \in Conns |-> IdleConn]
    /\ accepted = 0
    /\ maxLive = 1
    /\ arg = NoCall
    /\ ret = NoResult

Next ==
    \/ \E c \in Conns, r \in Catalog : Accept(c, r)
    \/ \E c \in Conns : AcceptError(c)
    \/ \E c \in Conns : \E k \in 1..Len(conn[c].req) : PeerSend(c, k)
    \/ \E c \in Conns : PeerClose(c)
    \/ \E c \in Conns : Read(c)
    \/ \E c \in Conns : ReadEof(c)
    \/ \E c \in Conns : ReadError(c)
    \/ \E c \in Conns : Parse(c)
    \/ \E c \in Conns : RouteRespond(c)
    \/ \E c \in Conns, ioerr \in BOOLEAN : RouteGetFile(c, ioerr)
    \/ \E c \in Conns, created \in BOOLEAN : RoutePostFile(c, created)
    \/ \E c \in Conns : \E n \in 0..Len(conn[c].buffer) : FsWrite(c, n)
    \/ \E c \in Conns : Write(c, TRUE)
    \/ \E c \in Conns : Write(c, FALSE)
    \/ \E c \in Conns : Flush(c)
    \/ \E c \in Conns : Close(c)

Spec == Init /\ [][Next]_vars

(***************************************************************************)
(* The server with its connection threads scheduled fairly.                *)
(***************************************************************************)
\* a step of the thread of c
ThreadStep(c) ==
    \/ Read(c) \/ ReadEof(c) \/ ReadError(c) \/ Parse(c) \/ RouteRespond(c)
    \/ \E ioerr \in BOOLEAN : RouteGetFile(c, ioerr)
    \/ \E created \in BOOLEAN : RoutePostFile(c, created)
    \/ \E n \in 0..Len(conn[c].buffer) : FsWrite(c, n)
    \/ Write(c, TRUE) \/ Write(c, FALSE) \/ Flush(c) \/ Close(c)

\* the thread of c is not blocked: it is past its read, or its read can
\* return (bytes have arrived, or the peer is gone). This is
\* ENABLED <<ThreadStep(c)>>_vars written as a state predicate.
Runnable(c) ==
    \/ conn[c].pc \in {"parse", "route", "fs_write", "write", "flush", "end"}
    \/ /\ conn[c].pc = "reading"
       /\ Inflight(conn[c]) # <<>> \/ conn[c].peer = "closed"

\* weak fairness of the thread of c: a thread that stays runnable is
\* scheduled. Nothing is assumed of the peers and of the listener.
FairThread(c) == []<>(~Runnable(c)) \/ []<><<ThreadStep(c)>>_vars

\* the server started with a directory that holds f
InitFair ==
    /\ argv = <<"server", DIR_PATH, "dir">>
    /\ files = <<"f">> :> RegularFile(<<"a", "b">>)
    /\ conn = [c \in Conns |-> IdleConn]
    /\ accepted = 0
    /\ maxLive = 1
    /\ arg = NoCall
    /\ ret = NoResult

SpecFair == InitFair /\ [][Next]_vars /\ \A c \in Conns : FairThread(c)

(***************************************************************************)
(* The serializer and the parser applied on their own.                     *)
(***************************************************************************)
MaxBodyLen == 4
MaxValueLen == 3

SeqsUpTo(A, n) == UNION {[1..k -> A] : k \in 0..n}

Padding(n) == [i \in 1..n |-> "p"]

\* bodies of 0 to MaxBodyLen bytes, and the same after 8 and after 97 bytes,
\* so that their lengths have one, two and three digits
Bodies ==
    {Padding(n) \o s : n \in {0, 8, 97}, s \in SeqsUpTo({"a", CR, LF}, MaxBodyLen)}

X_KEY == <<"X">>

\* header values at the ends of the i32 range and beyond it
RangeValues ==
    { <<"2", "1", "4", "7", "4", "8", "3", "6", "4", "7">>,
      <<"2", "1", "4", "7", "4", "8", "3", "6", "4", "8">>,
      <<"+", "2", "1", "4", "7", "4", "8", "3", "6", "4", "7">>,
      <<"+", "2", "1", "4", "7", "4", "8", "3", "6", "4", "8">>,
      <<"-", "2", "1", "4", "7", "4", "8", "3", "6", "4", "8">>,
      <<"-", "2", "1", "4", "7", "4", "8", "3", "6", "4", "9">>,
      <<"4", "2", "9", "4", "9", "6", "7", "3", "3", "8">>,
      <<"9", "9", "9", "9", "9", "9", "9", "9", "9", "9", "9">>,
      <<"0", "0", "0", "2", "1", "4", "7", "4", "8", "3", "6", "4", "7">>,
      <<"-", "0">> }

HeaderValues ==
    SeqsUpTo({"4", "2", "a", "-", "+", SP}, MaxValueLen) \cup RangeValues

\* the header block of a GET of / with the header line `X: value`
HeaderBlock(value) ==
    Request(RequestLine(GET, T_ROOT, HTTP11) \o HeaderLine(X_KEY, value), <<>>)

Calls ==
    {[fn |-> f, text |-> s, value |-> <<>>] : f \in {"Ok", "OkStream"}, s \in Bodies}
        \cup {[fn |-> "from_str", text |-> HeaderBlock(v), value |-> v] :
                  v \in HeaderValues}

InitPure ==
    /\ argv = <<"server">>
    /\ files = EmptyMap
    /\ conn = [c \in Conns |-> IdleConn]
    /\ accepted = 0
    /\ maxLive = 0
    /\ arg \in Calls
    /\ ret = NoResult

\* the response is serialized as main does (lines 321-327)
ApplySerialize ==
    /\ arg.fn \in {"Ok", "OkStream"}
    /\ ~ret.done
    /\ ret' = [done |-> TRUE,
               out |-> IF arg.fn = "Ok"
                       THEN into_response(Ok(Some(arg.text)))
                       ELSE into_stream_response(OkStream(Some(arg.text))),
               request |-> None]
    /\ UNCHANGED <<argv, files, conn, accepted, maxLive, arg>>

\* HttpRequest::from_str is applied to a header block
ApplyFromStr ==
    /\ arg.fn = "from_str"
    /\ ~ret.done
    /\ ret' = [done |-> TRUE, out |-> <<>>, request |-> from_str(arg.text)]
    /\ UNCHANGED <<argv, files, conn, accepted, maxLive, arg>>

NextPure == ApplySerialize \/ ApplyFromStr

SpecPure == InitPure /\ [][NextPure]_vars

(***************************************************************************)
(* The server with connections running at once.                            *)
(***************************************************************************)
\* the requests of the concurrent peers: two POSTs of the same file with
\* bodies of different lengths, a GET of that file, a GET of /, and a
\* request that does not parse
ConcCatalog ==
    { Request(RequestLine(POST, T_FILES \o <<"f">>, HTTP11)
                  \o HeaderLine(CL_KEY, <<"2">>), <<"h", "i">>),
      Request(RequestLine(POST, T_FILES \o <<"f">>, HTTP11), <<"x">>),
      Request(RequestLine(GET, T_FILES \o <<"f">>, HTTP11), <<>>),
      Request(RequestLine(GET, T_ROOT, HTTP11), <<>>),
      Request(<<"x">> \o CRLF, <<>>) }

InitConc ==
    /\ argv = <<"server", DIR_PATH, "dir">>
    /\ files = <<"f">> :> RegularFile(<<"a", "b">>)
    /\ conn = [c \in Conns |-> IdleConn]
    /\ accepted = 0
    /\ maxLive = 2
    /\ arg = NoCall
    /\ ret = NoResult

\* the peers send their request in one segment
NextConc ==
    \/ \E c \in Conns, r \in ConcCatalog : Accept(c, r)
    \/ \E c \in Conns : AcceptError(c)
    \/ \E c \in Conns : PeerSend(c, Len(conn[c].req))
    \/ \E c \in Conns : PeerClose(c)
    \/ \E c \in Conns : Read(c)
    \/ \E c \in Conns : ReadEof(c)
    \/ \E c \in Conns : ReadError(c)
    \/ \E c \in Conns : Parse(c)
    \/ \E c \in Conns : RouteRespond(c)
    \/ \E c \in Conns, ioerr \in BOOLEAN : RouteGetFile(c, ioerr)
    \/ \E c \in Conns, created \in BOOLEAN : RoutePostFile(c, created)
    \/ \E c \in Conns : \E n \in 0..Len(conn[c].buffer) : FsWrite(c, n)
    \/ \E c \in Conns : Write(c, TRUE)
    \/ \E c \in Conns : Write(c, FALSE)
    \/ \E c \in Conns : Flush(c)
    \/ \E c \in Conns : Close(c)

SpecConc == InitConc /\ [][NextConc]_vars

(***************************************************************************)
(* process_stream applied on its own to a byte stream.                     *)
(***************************************************************************)
MaxStreamLen == 6

\* the byte streams of up to MaxStreamLen bytes that hold \r\n\r\n
Streams ==
    {s \in SeqsUpTo({"a", CR, LF}, MaxStreamLen) : FindBoundary(s) # None}

InitStream ==
    /\ argv = <<"server">>
    /\ files = EmptyMap
    /\ \E s \in Streams :
           conn = [c \in Conns |->
                      IF c = 1
                      THEN [IdleConn EXCEPT !.pc = "reading", !.req = s,
                                            !.events = <<"Accepted", "Reading">>]
                      ELSE IdleConn]
    /\ accepted = 1
    /\ maxLive = 0
    /\ arg = NoCall
    /\ ret = NoResult

\* the peer sends the stream in segments and process_stream reads them
NextStream ==
    \/ \E c \in Conns : \E k \in 1..Len(conn[c].req) : PeerSend(c, k)
    \/ \E c \in Conns : Read(c)

SpecStream == InitStream /\ [][NextStream]_vars

(***************************************************************************)
(* Properties.                                                             *)
(***************************************************************************)
Has(c, e) == \E i \in DOMAIN conn[c].events : conn[c].events[i] = e

Closed(c) == conn[c].pc = "closed"

NOT_FOUND_BYTES ==
    <<"H", "T", "T", "P", "/", "1", ".", "1", SP, "4", "0", "4", SP,
      "N", "O", "T", SP, "F", "O", "U", "N", "D", CR, LF, CR, LF>>

CREATED_BYTES ==
    <<"H", "T", "T", "P", "/", "1", ".", "1", SP, "2", "0", "1", SP,
      "C", "R", "E", "A", "T", "E", "D", CR, LF, CR, LF>>

\* the thread of c ended normally, or by the panic of a failed write to a
\* peer that is gone
EndedAfterWrite(c) ==
    \/ conn[c].exit = "ok" /\ Has(c, "Written")
    \/ conn[c].exit = "panic_write" /\ conn[c].peer = "closed"
                                    /\ conn[c].out = <<>>

C2_PostStoresWholeBody ==
    \A c \in Conns :
        /\ Closed(c) /\ conn[c].exit = "ok"
        /\ conn[c].out = CREATED_BYTES
        => FileAt(files, <<"f">>) = RegularFile(FullBody(conn[c].req))

\* the bytes the peer of c sent
SentBytes(c) == Slice(conn[c].req, 0, conn[c].sent)

\* C3: a connection whose peer closes before \r\n\r\n has arrived ends with
\* UnexpectedEof (or the error of the read), nothing written, nothing
\* parsed or routed and no file touched, whatever bytes had arrived.
C3_EofBeforeBoundary ==
    \A c \in Conns :
        /\ Closed(c) /\ Has(c, "Accepted") /\ FindBoundary(SentBytes(c)) = None
           => conn[c].exit \in {"UnexpectedEof", "ReadError"}
        /\ conn[c].pc = "reading" => FindBoundary(conn[c].buffer) = None
        /\ conn[c].exit \in {"UnexpectedEof", "ReadError"} =>
             /\ conn[c].peer = "closed"
             /\ conn[c].out = <<>>
             /\ conn[c].request = None
             /\ ~conn[c].fileRead /\ ~conn[c].fileWrite
             /\ conn[c].events = <<"Accepted", "Reading", "Closed">>
        /\ conn[c].exit = "UnexpectedEof" => conn[c].buffer = SentBytes(c)

C3_Witness ==
    \E c \in Conns :
        /\ Closed(c) /\ conn[c].exit = "UnexpectedEof"
        /\ conn[c].buffer # <<>>
        /\ conn[c].out = <<>>

Rank(e) ==
    CASE e = "Accepted" -> 1
      [] e = "Reading" -> 2
      [] e \in {"Parsed", "ParseFailed"} -> 3
      [] e = "Routed" -> 4
      [] e = "ResponseChosen" -> 5
      [] e = "Written" -> 6
      [] e = "Flushed" -> 7
      [] e = "Closed" -> 8
      [] OTHER -> 0

\* the order of the steps, in every state
StepOrder ==
    \A c \in Conns :
        Has(c, "Accepted") =>
            /\ \A i, j \in DOMAIN conn[c].events :
                   i < j => Rank(conn[c].events[i]) < Rank(conn[c].events[j])
            /\ conn[c].events[1] = "Accepted"
            /\ Has(c, "Written") <=> conn[c].out # <<>>
            /\ Has(c, "Written") =>
                   /\ Has(c, "Parsed") \/ Has(c, "ParseFailed")
                   /\ conn[c].out = response_bytes(conn[c].response)
            /\ Has(c, "ResponseChosen") => Has(c, "Routed") /\ Has(c, "Parsed")
            /\ Has(c, "Flushed") <=> conn[c].flushed
            /\ Has(c, "Written") /\ Closed(c) => conn[c].flushed
            /\ Closed(c) <=> Has(c, "Closed")

\* once a response is written the thread reads no more and writes no more
OneResponse ==
    \A c \in Conns :
        Has(c, "Written") /\ Has(c, "Written")' =>
            /\ conn'[c].buffer = conn[c].buffer
            /\ conn'[c].out = conn[c].out

\* C4: the steps of a connection come in the order Accepted, Reading,
\* Parsed or ParseFailed, Routed, ResponseChosen, Written, Closed; one
\* response at most is written, nothing is read after it, and a written
\* response is flushed before the connection closes.
C4_ConnectionOrder == []StepOrder /\ [][OneResponse]_vars

\* a connection that went through every step
C4_Witness ==
    \E c \in Conns :
        conn[c].events = <<"Accepted", "Reading", "Parsed", "Routed",
                           "ResponseChosen", "Written", "Flushed", "Closed">>

Request_(c) == Unwrap(conn[c].request)

\* a parsed request that matches no route
Miss(req) ==
    \/ req.method \notin {GET, POST}
    \/ /\ req.method = GET
       /\ req.path # <<>>
       /\ ~Contains(req.path, ECHO_PREFIX)
       /\ req.path # USER_AGENT_PATH
       /\ ~Contains(req.path, FILES_PATH)
    \/ req.method = POST /\ ~Contains(req.path, FILES_PATH)
    \/ /\ req.method = GET
       /\ req.path = USER_AGENT_PATH
       /\ USER_AGENT_KEY \notin DOMAIN req.headers

\* C5: a parsed request that matches no route is answered NotFound, with
\* exactly the bytes of the 404 response; no file is touched and the thread
\* does not panic, unless the write to a peer that is gone fails.
C5_RoutingMissIs404 ==
    \A c \in Conns :
        Has(c, "Parsed") /\ Miss(Request_(c)) /\ conn[c].pc # "route" =>
            /\ conn[c].response = NotFound
            /\ Has(c, "ResponseChosen")
            /\ ~conn[c].fileRead /\ ~conn[c].fileWrite
            /\ Has(c, "Written") => conn[c].out = NOT_FOUND_BYTES
            /\ Closed(c) => EndedAfterWrite(c)

C5_Witness ==
    \E c \in Conns :
        /\ Closed(c) /\ conn[c].exit = "ok"
        /\ Has(c, "Parsed") /\ Request_(c).method = <<"P", "U", "T">>
        /\ Contains(Request_(c).path, FILES_PATH)
        /\ get_arg(argv, DIR_PATH) # None
        /\ conn[c].out = NOT_FOUND_BYTES

\* C6: a connection that went into a file route ends with a response
\* written, the 404 response when the file access failed, and never with a
\* panic of its thread in the file access.
C6_FsFailureIs404 ==
    \A c \in Conns :
        Closed(c) /\ (conn[c].fileRead \/ conn[c].fileWrite) =>
            /\ conn[c].exit # "panic_write_file"
            /\ EndedAfterWrite(c)
            /\ conn[c].response.tag \notin {"OkStream", "Created"}
                   /\ conn[c].exit = "ok"
               => conn[c].out = NOT_FOUND_BYTES

\* r is what ECHO_RE captures in path: the bytes after the first echo/ up
\* to the next whitespace
IsEchoRest(path, r) ==
    \E i \in 0..Len(path) :
        /\ StartsAt(path, i, ECHO_PREFIX)
        /\ \A j \in 0..(i - 1) : ~StartsAt(path, j, ECHO_PREFIX)
        /\ StartsAt(path, i + Len(ECHO_PREFIX), r)
        /\ \A k \in 1..Len(r) : ~IsSpace(r[k])
        /\ LET e == i + Len(ECHO_PREFIX) + Len(r)
           IN  e = Len(path) \/ IsSpace(path[e + 1])

\* a 200 text/plain response with a body b of less than ten bytes, byte by
\* byte
TextResponse(b) ==
    <<"H", "T", "T", "P", "/", "1", ".", "1", SP, "2", "0", "0", SP, "O", "K",
      CR, LF>>
    \o <<"C", "o", "n", "t", "e", "n", "t", "-", "T", "y", "p", "e", ":", SP,
         "t", "e", "x", "t", "/", "p", "l", "a", "i", "n", CR, LF>>
    \o <<"C", "o", "n", "t", "e", "n", "t", "-", "L", "e", "n", "g", "t", "h",
         ":", SP>>
    \o <<Digits[Len(b) + 1]>> \o <<CR, LF, CR, LF>> \o b

\* C7: for a GET the checks are made in the order empty path, echo/,
\* user-agent, files, and the first that matches decides: a path in which
\* echo/ occurs is answered as echo, with the bytes after the first echo/ up
\* to the next whitespace, also when it contains files, and no file is read.
C7_RouteOrder ==
    \A c \in Conns :
        Has(c, "ResponseChosen") /\ Request_(c).method = GET =>
            LET path == Request_(c).path
                r    == conn[c].response
            IN  /\ path = <<>> => r = Ok(None)
                /\ Contains(path, ECHO_PREFIX) =>
                       /\ r.tag = "Ok" /\ r.body # None
                       /\ IsEchoRest(path, Unwrap(r.body))
                       /\ ~conn[c].fileRead
                       /\ Has(c, "Written") =>
                              conn[c].out = TextResponse(Unwrap(r.body))
                /\ path = USER_AGENT_PATH =>
                       r.tag \in {"Ok", "NotFound"} /\ ~conn[c].fileRead
                /\ conn[c].fileRead =>
                       /\ Contains(path, FILES_PATH)
                       /\ ~Contains(path, ECHO_PREFIX)
                       /\ path # USER_AGENT_PATH
                /\ r.tag = "OkStream" => conn[c].fileRead

C7_Witness ==
    \E c \in Conns :
        /\ Closed(c) /\ conn[c].exit = "ok"
        /\ conn[c].req =
               Request(RequestLine(GET, T_FILES \o ECHO_PREFIX \o <<"f">>, HTTP11),
                       <<>>)
        /\ get_arg(argv, DIR_PATH) # None
        /\ FileAt(files, <<"f">>).kind = "file"
        /\ conn[c].out = TextResponse(<<"f">>)
        /\ ~conn[c].fileRead

\* C10: a GET of user-agent is answered 200 text/plain with the value of
\* the User-Agent header exactly when that header is there and stored as a
\* string, and NotFound when it is missing or stored as an integer.
C10_UserAgent ==
    \A c \in Conns :
        /\ Has(c, "ResponseChosen") /\ Request_(c).method = GET
              /\ Request_(c).path = USER_AGENT_PATH
           => LET h == Request_(c).headers
                  stored == USER_AGENT_KEY \in DOMAIN h
                                /\ h[USER_AGENT_KEY].tag = "Str"
              IN  /\ stored => conn[c].response = Ok(Some(h[USER_AGENT_KEY].str))
                  /\ ~stored => conn[c].response = NotFound
                  /\ Has(c, "Written") =>
                         conn[c].out =
                             IF stored THEN TextResponse(h[USER_AGENT_KEY].str)
                             ELSE NOT_FOUND_BYTES
        /\ Has(c, "Written") /\ conn[c].req \in UserAgentRequests =>
              conn[c].out =
                  IF conn[c].req =
                         Request(RequestLine(GET, T_USER_AGENT, HTTP11)
                                     \o HeaderLine(USER_AGENT_KEY, <<"t", "/", "1">>),
                                 <<>>)
                  THEN TextResponse(<<"t", "/", "1">>)
                  ELSE NOT_FOUND_BYTES

C10_Witness ==
    \E c \in Conns :
        /\ Closed(c) /\ conn[c].exit = "ok"
        /\ Has(c, "Parsed") /\ Request_(c).path = USER_AGENT_PATH
        /\ conn[c].out = TextResponse(<<"t", "/", "1">>)

\* a GET of user-agent with `User-Agent: 12` is answered NotFound
C10_WitnessInteger ==
    \E c \in Conns :
        /\ Closed(c) /\ conn[c].exit = "ok"
        /\ Has(c, "Parsed") /\ Request_(c).path = USER_AGENT_PATH
        /\ USER_AGENT_KEY \in DOMAIN Request_(c).headers
        /\ Request_(c).headers[USER_AGENT_KEY] = Number(12)
        /\ conn[c].out = NOT_FOUND_BYTES

\* the number a sequence of decimal digits writes, -1 when it is not one
RECURSIVE FromDecimal(_)
FromDecimal(ds) ==
    IF ds = <<>> \/ \E k \in 1..Len(ds) : ~IsDigit(ds[k]) THEN -1
    ELSE IF Len(ds) = 1 THEN DigitVal(ds[1])
    ELSE FromDecimal(SubSeq(ds, 1, Len(ds) - 1)) * 10 + DigitVal(ds[Len(ds)])

\* the value of the Content-Length line of the header block of out
ReadContentLength(out) ==
    LET line == CRLF \o <<"C", "o", "n", "t", "e", "n", "t", "-", "L", "e", "n",
                          "g", "t", "h", ":", SP>>
        i    == SetMin({k \in 0..Len(out) : StartsAt(out, k, line)}) + Len(line)
        e    == SetMin({k \in i..Len(out) : StartsAt(out, k, CRLF)})
    IN  FromDecimal(Slice(out, i, e))

\* C8: the serialization of Ok(Some(s)), and of OkStream(Some(b)), has a
\* Content-Length header whose value is the number of bytes of the body,
\* inside the header block, and after the first \r\n\r\n exactly the body.
C8_ContentLengthRoundTrip ==
    ret.done /\ arg.fn \in {"Ok", "OkStream"} =>
        LET b == Unwrap(FindBoundary(ret.out))
        IN  /\ FindBoundary(ret.out) # None
            /\ Slice(ret.out, b + 4, Len(ret.out)) = arg.text
            /\ ReadContentLength(Slice(ret.out, 0, b + 2)) = Len(arg.text)
            /\ StartsAt(ret.out, 0, STATUS_200 \o CRLF \o CONTENT_TYPE
                   \o (IF arg.fn = "Ok" THEN TEXT_PLAIN ELSE OCTET_STREAM) \o CRLF)

\* a body of ten bytes or more that itself holds \r\n\r\n
C8_Witness ==
    /\ ret.done /\ arg.fn = "Ok"
    /\ Len(arg.text) >= 10
    /\ Contains(arg.text, BOUNDARY)
    /\ ReadContentLength(ret.out) = Len(arg.text)

\* v is an optional sign followed by one decimal digit or more
IsSignedDecimal(v) ==
    /\ v # <<>>
    /\ LET ds == IF v[1] \in {"+", "-"} THEN Tail(v) ELSE v
       IN  ds # <<>> /\ \A k \in 1..Len(ds) : IsDigit(ds[k])

\* the digits of v without its sign and its leading zeros
Magnitude(v) ==
    LET ds == IF v[1] \in {"+", "-"} THEN Tail(v) ELSE v
        nz == {k \in 1..Len(ds) : ds[k] # "0"}
    IN  IF nz = {} THEN <<"0">> ELSE SubSeq(ds, SetMin(nz), Len(ds))

\* a <= b for two digit sequences of one length
DigitsLeq(a, b) ==
    \/ a = b
    \/ \E i \in 1..Len(a) :
           /\ \A j \in 1..(i - 1) : a[j] = b[j]
           /\ DigitVal(a[i]) < DigitVal(b[i])

\* the signed decimal v lies in -2147483648..2147483647
FitsI32(v) ==
    LET m     == Magnitude(v)
        limit == IF v[1] = "-"
                 THEN <<"2", "1", "4", "7", "4", "8", "3", "6", "4", "8">>
                 ELSE <<"2", "1", "4", "7", "4", "8", "3", "6", "4", "7">>
    IN  Len(m) < 10 \/ (Len(m) = 10 /\ DigitsLeq(m, limit))

\* the value of a signed decimal that fits
RECURSIVE SignedValue(_, _)
SignedValue(ds, sgn) ==
    IF ds = <<>> THEN 0
    ELSE SignedValue(SubSeq(ds, 1, Len(ds) - 1), sgn) * 10
             + sgn * DigitVal(ds[Len(ds)])

DecimalValue(v) == SignedValue(Magnitude(v), IF v[1] = "-" THEN -1 ELSE 1)

StoredX == Unwrap(ret.request).headers[X_KEY]

\* C9 as stated: the trimmed value of a header line is stored with the
\* integer tag exactly when it is a base-10 signed integer, of any size.
C9_IntegerTagForEveryInteger ==
    ret.done /\ arg.fn = "from_str" =>
        /\ ret.request # None
        /\ X_KEY \in DOMAIN Unwrap(ret.request).headers
        /\ StoredX.tag = "Number" <=> IsSignedDecimal(Trim(arg.value))

\* C9, amended: the trimmed value is stored with the integer tag, as the
\* integer it writes, exactly when it is a base-10 signed integer (an
\* optional + or -, then digits) in the range of i32; any other value, a
\* decimal outside that range too, is stored with the string tag, unchanged.
C9_IntegerTagWithinI32 ==
    ret.done /\ arg.fn = "from_str" =>
        /\ ret.request # None
        /\ X_KEY \in DOMAIN Unwrap(ret.request).headers
        /\ LET v == Trim(arg.value)
           IN  IF IsSignedDecimal(v) /\ FitsI32(v)
               THEN StoredX = Number(DecimalValue(v))
               ELSE StoredX = Str(v)

\* `X: 42a` is stored as a string
C9_Witness ==
    /\ ret.done /\ arg.value = <<"4", "2", "a">>
    /\ StoredX = Str(<<"4", "2", "a">>)

\* a request that reaches the file route of its method: a POST whose path
\* contains files, or a GET whose path contains files and is not taken by
\* the echo route before it
FileRouted(req) ==
    /\ Contains(req.path, FILES_PATH)
    /\ \/ req.method = POST
       \/ req.method = GET /\ extract_path_echo(req.path) = None

\* with no directory given: NotFound, no file read or written, store as it was
NoDirectoryOutcome(c) ==
    /\ conn[c].pc # "fs_write"
    /\ conn[c].pc \in {"write", "flush", "end", "closed"} =>
           conn[c].response = NotFound /\ Has(c, "ResponseChosen")
    /\ ~conn[c].fileRead /\ ~conn[c].fileWrite
    /\ files \in InitialStores
    /\ Has(c, "Written") => conn[c].out = NOT_FOUND_BYTES
    /\ Closed(c) => EndedAfterWrite(c)

\* C11 as stated: with no --directory value, every GET and every POST whose
\* path contains files is answered NotFound and touches no file.
C11_NoDirectoryAnyFilesPath ==
    \A c \in Conns :
        /\ Has(c, "Parsed") /\ get_arg(argv, DIR_PATH) = None
        /\ Request_(c).method \in {GET, POST}
        /\ Contains(Request_(c).path, FILES_PATH)
        => NoDirectoryOutcome(c)

\* C11, amended: with no --directory value, every POST whose path contains
\* files, and every GET whose path contains files and holds no echo/ (such a
\* GET is answered by the echo route), is answered NotFound; no file is read,
\* created or written.
C11_NoDirectoryFileRoute ==
    \A c \in Conns :
        /\ Has(c, "Parsed") /\ get_arg(argv, DIR_PATH) = None
        /\ FileRouted(Request_(c))
        => NoDirectoryOutcome(c)

C11_Witness ==
    \E c \in Conns :
        /\ get_arg(argv, DIR_PATH) = None
        /\ Closed(c) /\ Has(c, "Parsed") /\ Request_(c).method = GET
        /\ Request_(c).path = FILES_PREFIX \o <<"f">>
        /\ FileAt(files, <<"f">>).kind = "file"
        /\ conn[c].out = NOT_FOUND_BYTES

\* how a connection ends by a failure of its own
Failures ==
    {"accept_error", "UnexpectedEof", "ReadError", "panic_write",
     "panic_write_file"}

Failed(c) ==
    \/ conn[c].exit \in Failures
    \/ Closed(c) /\ Has(c, "ParseFailed")
    \/ Closed(c) /\ (conn[c].fileRead \/ conn[c].fileWrite)
                  /\ conn[c].response = NotFound

\* the thread of d, past its parse, can take its next step, and the
\* successful one where the step can fail
CanStep(d) ==
    /\ conn[d].pc = "route" =>
           \/ ENABLED RouteRespond(d)
           \/ ENABLED RouteGetFile(d, FALSE)
           \/ ENABLED RoutePostFile(d, TRUE)
    /\ conn[d].pc = "fs_write" => ENABLED FsWrite(d, Len(Plan(d).data))
    /\ conn[d].pc = "write" => ENABLED Write(d, TRUE)
    /\ conn[d].pc = "flush" => ENABLED Flush(d)
    /\ conn[d].pc = "end" => ENABLED Close(d)

\* the listener can accept while the scenario has connections left
CanAccept ==
    accepted < MaxAccepts /\ NumLive < maxLive =>
        /\ ENABLED (\E c \in Conns, r \in ConcCatalog : Accept(c, r))
        /\ \E c \in Conns : FreeSlot(c)

\* whatever the other connections did, failures included, every live
\* connection can go on and the listener can accept
Unhindered == CanAccept /\ \A d \in Conns : CanStep(d)

\* a step changes the state of one connection at most
OneConnection ==
    \A c, d \in Conns :
        c # d /\ conn'[c] # conn[c] => conn'[d] = conn[d]

\* a connection that ends by a failure of its own leaves the file store as
\* it found it, but for the file its own POST was writing
FailureFrame ==
    \A c \in Conns :
        ~Closed(c) /\ Closed(c)' /\ conn'[c].exit # "panic_write_file" =>
            files' = files

\* C12: errors are connection-local. A step changes one connection only; a
\* connection that fails (accept error, EOF before the boundary, parse
\* failure, file error, failed write to a peer that is gone) changes nothing
\* of another; and in every state, whatever failures there were, each live
\* connection can take its next step up to its response and its close, and
\* the listener can accept the next connection.
C12_ErrorsAreConnectionLocal ==
    []Unhindered /\ [][OneConnection /\ FailureFrame]_vars

\* one connection ended by a panic while another, accepted before that, was
\* served to its end
C12_Witness ==
    \E c, d \in Conns :
        /\ c # d
        /\ conn[c].exit \in {"panic_write", "panic_write_file"}
        /\ Closed(d) /\ conn[d].exit = "ok" /\ Has(d, "Parsed")
        /\ conn[d].out = response_bytes(conn[d].response)
        /\ accepted = MaxAccepts

\* the body of the POST that c serves
PostBody(c) == Unwrap(Request_(c).body)

\* c was answered Created for a POST of the file f
CreatedF(c) ==
    /\ Closed(c) /\ conn[c].exit = "ok" /\ conn[c].out = CREATED_BYTES
    /\ Request_(c).path = FILES_PREFIX \o <<"f">>

\* C13: when two connections that POST different bodies to the file f have
\* both been answered Created, and no other connection is writing, the file
\* holds the body of one of the two, never a mixture.
C13_LastWriterWins ==
    \A c, d \in Conns :
        /\ c # d /\ CreatedF(c) /\ CreatedF(d)
        /\ PostBody(c) # PostBody(d)
        /\ accepted = 2
        => FileAt(files, <<"f">>).data \in {PostBody(c), PostBody(d)}

\* c is about to read the file of its GET
AtGetFile(c) == conn[c].pc = "route" /\ Plan(c).kind = "read"

\* a GET of a file is never held back, also while a POST is between the
\* truncation and the write of that file
GetNeverWaits ==
    \A c \in Conns : AtGetFile(c) => ENABLED RouteGetFile(c, FALSE)

\* the response of a GET of a file holds what the store holds at that step
GetSeesStore ==
    \A c \in Conns :
        AtGetFile(c) /\ conn'[c].pc = "write" =>
            /\ files' = files
            /\ conn'[c].response \in
                   {NotFound, get_file_response(file_contents(files, Plan(c).name, FALSE))}

\* C17: reads and writes of the directory are not synchronised. A GET of a
\* file is served at once with what the file holds at that instant, also
\* while a POST of the same file is between its truncation and its write;
\* so a GET can be answered 200 with a body that is neither the content
\* before the POST nor the body of the POST (the witness).
C17_ReadsAreNotSynchronised == []GetNeverWaits /\ [][GetSeesStore]_vars

\* the file held ab, a POST of hi or x was running, and the GET was answered
\* 200 with an empty body
C17_Witness ==
    \E c, d \in Conns :
        /\ c # d
        /\ Closed(c) /\ conn[c].exit = "ok" /\ Has(c, "Parsed")
        /\ Request_(c).method = GET
        /\ conn[c].response = OkStream(Some(<<>>))
        /\ conn[c].out = OkHead(OCTET_STREAM, 0)
        /\ Has(d, "Parsed") /\ Request_(d).method = POST /\ conn[d].fileWrite
        /\ PostBody(d) # <<>>

\* no POST is between its truncation and its write
NoWriteInProgress == \A e \in Conns : conn[e].pc # "fs_write"

\* C14: a POST of the file f that is answered Created leaves f holding its
\* body, whatever f held before; and the same POST done twice, each answered
\* Created, leaves f as one POST leaves it: the file is created or
\* truncated, never appended to. (No more than two connections so far.)
C14_PostIsIdempotent ==
    \A c \in Conns :
        /\ accepted <= 2 /\ NoWriteInProgress
        /\ CreatedF(c)
        /\ \A d \in Conns \ {c} :
               ~conn[d].fileWrite \/ (CreatedF(d) /\ conn[d].req = conn[c].req)
        => FileAt(files, <<"f">>) = RegularFile(PostBody(c))

\* the same POST was served twice
C14_Witness ==
    \E c, d \in Conns :
        /\ c # d /\ CreatedF(c) /\ CreatedF(d) /\ conn[d].req = conn[c].req
        /\ PostBody(c) = <<"x">>
        /\ FileAt(files, <<"f">>) = RegularFile(<<"x">>)

\* the offsets of the bytes b in s
Offsets(s, b) == {k \in 1..Len(s) : s[k] = b}

\* the first line of a header block, without its \r\n
FirstLine(req) == Slice(req, 0, SetMin(Offsets(req, CR)) - 1)

\* the first line is `<METHOD> /<path> HTTP/1.1`, METHOD and path free of
\* whitespace
WellFormedLine(req) ==
    LET line == FirstLine(req)
        sp   == Offsets(line, SP)
    IN  /\ Cardinality(sp) = 2
        /\ \A k \in 1..Len(line) : IsSpace(line[k]) => line[k] = SP
        /\ SetMin(sp) > 1
        /\ SetMax(sp) > SetMin(sp) + 1
        /\ line[SetMin(sp) + 1] = "/"
        /\ Slice(line, SetMax(sp), Len(line)) = HTTP11

LineMethod(req) == Slice(FirstLine(req), 0, SetMin(Offsets(FirstLine(req), SP)) - 1)

\* the target of the first line with its leading slash stripped
LinePath(req) ==
    Slice(FirstLine(req), SetMin(Offsets(FirstLine(req), SP)) + 1,
          SetMax(Offsets(FirstLine(req), SP)) - 1)

\* the header block main hands to from_str (line 259)
ReqStr(c) == from_utf8_lossy(Slice(conn[c].buffer, 0, conn[c].body_pos))

\* C15: for a header block whose first line is `<METHOD> /<path> HTTP/1.1`
\* and whatever header lines follow, from_str succeeds with method METHOD
\* and path <path>, the leading slash stripped.
C15_ParserRecoversRequestLine ==
    \A c \in Conns :
        /\ Has(c, "Parsed") \/ Has(c, "ParseFailed")
        /\ WellFormedLine(ReqStr(c))
        => /\ Has(c, "Parsed")
           /\ Request_(c).method = LineMethod(ReqStr(c))
           /\ Request_(c).path = LinePath(ReqStr(c))

\* C15 for the requests whose header lines do not start with a slash: the
\* first line is recovered
C15_RecoveredWithoutSlashLine ==
    \A c \in Conns :
        /\ Has(c, "Parsed") \/ Has(c, "ParseFailed")
        /\ WellFormedLine(ReqStr(c))
        /\ conn[c].req \notin TwoLineRequests
        => /\ Has(c, "Parsed")
           /\ Request_(c).method = LineMethod(ReqStr(c))
           /\ Request_(c).path = LinePath(ReqStr(c))

IsPrefix(p, s) == Len(p) <= Len(s) /\ p = Slice(s, 0, Len(p))

\* the offset after the first \r\n\r\n of the stream of c
BodyStart(c) == Unwrap(FindBoundary(conn[c].req)) + 4

\* C16: whatever the split of a stream that holds \r\n\r\n into non-empty
\* reads, process_stream goes on reading until its buffer holds \r\n\r\n,
\* then returns the offset after the first \r\n\r\n of the stream and a
\* buffer that is a prefix of the stream at least that long; it has
\* returned once the bytes up to that offset have been read.
C16_BodyOffset ==
    \A c \in Conns :
        Has(c, "Reading") =>
            /\ IsPrefix(conn[c].buffer, SentBytes(c))
            /\ conn[c].pc = "reading" <=> FindBoundary(conn[c].buffer) = None
            /\ conn[c].pc = "reading" => conn[c].body_pos = 0
            /\ conn[c].pc = "parse" =>
                   /\ conn[c].body_pos = BodyStart(c)
                   /\ Len(conn[c].buffer) >= conn[c].body_pos

\* the stream \r\n\r\n\r\n, which holds \r\n\r\n at offsets 0 and 2, was
\* read in part and process_stream returned 4
C16_Witness ==
    \E c \in Conns :
        /\ conn[c].req = <<CR, LF, CR, LF, CR, LF>>
        /\ conn[c].pc = "parse"
        /\ conn[c].body_pos = 4
        /\ Len(conn[c].buffer) = 5

\* c serves a POST whose path contains files, with a directory given
PostsFile(c) ==
    /\ Has(c, "Parsed")
    /\ Request_(c).method = POST
    /\ Contains(Request_(c).path, FILES_PATH)
    /\ get_arg(argv, DIR_PATH) # None

\* a step that changes the file store is a step of a connection that serves
\* such a POST, and changes the file its path names and no other
FilesFrame ==
    files' # files =>
        \E c \in Conns :
            /\ conn'[c] # conn[c]
            /\ PostsFile(c)
            /\ \A n \in (DOMAIN files \cup DOMAIN files') \ {Plan(c).name} :
                   n \in DOMAIN files /\ n \in DOMAIN files' /\ files'[n] = files[n]

\* the connections that do not serve such a POST never reach write_file
OnlyPostWrites ==
    \A c \in Conns :
        conn[c].fileWrite \/ conn[c].pc = "fs_write" => PostsFile(c)

\* C19: the file store changes only by the step of a connection that serves
\* a POST whose path contains files, with a directory given; a GET, a
\* request of another method, a request that does not parse and a
\* connection that ends in EOF never reach write_file and leave every file
\* as it is.
C19_FileStoreFrame == []OnlyPostWrites /\ [][FilesFrame]_vars

\* a GET of the file f was answered with its content and f is as it was
C19_Witness ==
    \E c \in Conns :
        /\ Closed(c) /\ conn[c].exit = "ok" /\ Has(c, "Parsed")
        /\ Request_(c).method = GET /\ conn[c].fileRead
        /\ conn[c].response = OkStream(Some(<<"a", "b">>))
        /\ files = <<"f">> :> RegularFile(<<"a", "b">>)
        /\ accepted = 2

\* the peer of c has delivered \r\n\r\n, or is gone
Delivered(c) == FindBoundary(SentBytes(c)) # None \/ conn[c].peer = "closed"

\* while the peer has neither delivered \r\n\r\n nor closed, the connection
\* is in its read, with nothing parsed and nothing written
WaitsInRead ==
    \A c \in Conns :
        Has(c, "Reading") /\ ~Delivered(c) =>
            /\ conn[c].pc = "reading"
            /\ conn[c].out = <<>>
            /\ conn[c].request = None
            /\ conn[c].events = <<"Accepted", "Reading">>

\* C18: with the connection threads scheduled fairly, a connection whose
\* peer has delivered \r\n\r\n or has closed reaches its closed state; and
\* a connection whose peer has done neither (it is silent, or has sent bytes
\* without \r\n\r\n) stays in its read, writes nothing and is not ended by
\* any timeout.
C18_ClosesIffDelivered ==
    /\ []WaitsInRead
    /\ \A c \in Conns : (Live(c) /\ Delivered(c)) ~> Closed(c)

\* the peer sent bytes without \r\n\r\n and went silent: all of them are
\* read and the connection waits
C18_Witness ==
    \E c \in Conns :
        /\ conn[c].pc = "reading" /\ conn[c].peer = "open"
        /\ conn[c].sent > 0 /\ conn[c].buffer = SentBytes(c)
        /\ FindBoundary(SentBytes(c)) = None
        /\ conn[c].out = <<>>

=============================================================================
